---- MODULE Spec2Model ----
(***************************************************************************)
(* A model of StoreSchema (packages/store/src/lib/StoreSchema.ts): the     *)
(* migration resolver getMigrationsSince, the two migrators                *)
(* migratePersistedRecord and migrateStoreSnapshot, the serializations     *)
(* serialize and serializeEarliestVersion, upgradeSchema, and              *)
(* validateRecord.                                                         *)
(*                                                                         *)
(* A schema is constructed once (Init) with a registered set of migration  *)
(* sequences, its record types and its options, and is read-only           *)
(* afterwards.  Every public method is one synchronous call: an action     *)
(* takes the schema from "idle" to "returned", recording the arguments,    *)
(* what the call returned (or the exception that left it), the content of  *)
(* the object the caller passed in as it is after the call, and the        *)
(* transforms (or the hook) that were invoked, in order.  Return goes back *)
(* to "idle".                                                              *)
(*                                                                         *)
(* Spec runs the resolver and the two migrators on schemas whose steps are *)
(* of every kind (in place or replacing, throwing, record or store scope,  *)
(* with or without a down).  ResolverSpec runs getMigrationsSince,         *)
(* serialize, serializeEarliestVersion and upgradeSchema on schemas that   *)
(* vary what these read: the registered ids and their order, the postHoc   *)
(* marks, the length of each sequence.  ValidationSpec runs validateRecord *)
(* on schemas that vary the registered types and the recovery hook.        *)
(*                                                                         *)
(* JavaScript objects are modelled by their content; where the code may    *)
(* alias the caller's object, a reference carries a flag saying whether it *)
(* is the caller's object, and an in-place mutation through such a         *)
(* reference is also a mutation of the caller's content.  A property       *)
(* lookup on a plain object also finds the keys of Object.prototype.       *)
(***************************************************************************)
EXTENDS Integers, Sequences, FiniteSets, TLC

VARIABLES
    migrations,  \* this.migrations: the registered sequences, in registration order
    types,       \* this.types: the type names that have a RecordType
    onValidationFailure,  \* this.options.onValidationFailure: the recovery hook, if any
    pc,          \* "idle" | "returned"
    call,        \* the method called last and its arguments
    out          \* what the call returned, the caller's object after it, the transforms invoked

vars == <<migrations, types, onValidationFailure, pc, call, out>>

\* What the constructor sets (lines 93-100); no method writes it.
configuration == <<migrations, types, onValidationFailure>>

(***************************************************************************)
(* Bounds                                                                  *)
(***************************************************************************)

\* The largest number of migration steps registered in one schema (all sequences together).
MaxSteps == 2

(***************************************************************************)
(* Sequences of the model: small helpers                                   *)
(***************************************************************************)

Range(s) == {s[i] : i \in 1..Len(s)}

Reverse(s) == [i \in 1..Len(s) |-> s[Len(s) + 1 - i]]

\* All sequences without repetition over the elements of S.
RECURSIVE Orderings(_)
Orderings(S) ==
    IF S = {} THEN {<<>>}
    ELSE UNION {{<<x>> \o t : t \in Orderings(S \ {x})} : x \in S}

\* The sequences that hold every element of s exactly once (its reorderings).
Permutations_(s) ==
    {[i \in 1..Len(s) |-> s[p[i]]] :
        p \in {q \in [1..Len(s) -> 1..Len(s)] : \A i, j \in 1..Len(s) : q[i] = q[j] => i = j}}

(***************************************************************************)
(* Migration ids: the string `${sequenceId}/${version}`                    *)
(***************************************************************************)

\* String(n) for the numbers a snapshot can hold.
NumberToString(n) ==
    CASE n = -1 -> "-1"
      [] n = 0 -> "0"
      [] n = 1 -> "1"
      [] n = 2 -> "2"
      [] n = 3 -> "3"
      [] n = 4 -> "4"
      [] n = 5 -> "5"
      [] OTHER -> "many"

\* The template string of line 153, and the form of every step id.
MigrationIdOf(sequenceId, version) == sequenceId \o "/" \o NumberToString(version)

\* The version of the first step of a sequence (cameraVersions.AddMeta).
FirstVersion == 1

\* The sequence ids a schema of the model may register, in lexicographic order:
\* the camera sequence, and a sequence under the id a legacy snapshot upgrades to.
RegisterableIds == <<"com.tldraw.camera", "com.tldraw/page">>

\* Every sequence id of the model, in lexicographic order ('/' sorts before 'a').
AllSequenceIds ==
    <<"com.other", "com.tldraw.camera", "com.tldraw/camera", "com.tldraw/page",
      "com.tldraw/shape.type">>

\* The versions a step id or a snapshot of the model can name.
AllVersions == -1..(FirstVersion + MaxSteps - 1)

\* parseMigrationId: the sequence id and the version an id was formatted from.
parseMigrationId(id) ==
    CHOOSE p \in [sequenceId : Range(AllSequenceIds), version : AllVersions] :
        MigrationIdOf(p.sequenceId, p.version) = id

(***************************************************************************)
(* Records, stores and the transforms of the registered steps              *)
(***************************************************************************)

\* The value {} of a record's meta field; a meta object with entries is the
\* sequence of its entries <<key, value>>.
EmptyObject == <<>>

\* record[field] = value
SetField(record, field, value) ==
    [f \in DOMAIN record \cup {field} |-> IF f = field THEN value ELSE record[f]]

\* delete record[field]
DeleteField(record, field) == [f \in DOMAIN record \ {field} |-> record[f]]

CameraRecord(z) == [typeName |-> "camera", z |-> z]

PageRecord == [typeName |-> "page", z |-> 0]

\* The records a caller hands to migratePersistedRecord.
TestRecords ==
    {CameraRecord(1),
     SetField(CameraRecord(2), "meta", EmptyObject),
     SetField(CameraRecord(3), "meta", <<<<"note", 1>>>>),
     PageRecord}

\* The record ids of a store, in the key order of the store object.
RecordIdOrder == <<"camera:1", "camera:2", "page:1">>

\* The stores (record id -> record) a caller hands to migrateStoreSnapshot.
TestStores ==
    {<<>>,
     [id \in {"camera:1"} |-> CameraRecord(1)],
     [id \in {"camera:1", "camera:2", "page:1"} |->
         CASE id = "camera:1" -> CameraRecord(1)
           [] id = "camera:2" -> SetField(CameraRecord(2), "meta", EmptyObject)
           [] OTHER -> PageRecord]}

\* The ids of a store in key order.
StoreKeys(store) == SelectSeq(RecordIdOrder, LAMBDA id : id \in DOMAIN store)

\* What a call of a transform does: it throws or not, it leaves the object it
\* was given with content obj (mutated in place or not), and it returns a
\* replacement (ret = <<value>>) or nothing (ret = <<>>).
Effect(threw, obj, ret) == [threw |-> threw, obj |-> obj, ret |-> ret]

\* The transforms of the model's steps, by name.  Those of record scope act
\* on camera records only (createRecordMigrations({recordType: 'camera'})).
Transform(name, obj) ==
    CASE name = "addMeta" ->
            \* (record).meta = {}
            IF obj.typeName = "camera"
            THEN Effect(FALSE, SetField(obj, "meta", EmptyObject), <<>>)
            ELSE Effect(FALSE, obj, <<>>)
      [] name = "deleteMeta" ->
            \* delete (record).meta
            IF obj.typeName = "camera"
            THEN Effect(FALSE, DeleteField(obj, "meta"), <<>>)
            ELSE Effect(FALSE, obj, <<>>)
      [] name = "incZ" ->
            \* record.z++ : in place, not idempotent
            IF obj.typeName = "camera"
            THEN Effect(FALSE, [obj EXCEPT !.z = @ + 1], <<>>)
            ELSE Effect(FALSE, obj, <<>>)
      [] name = "decZ" ->
            IF obj.typeName = "camera"
            THEN Effect(FALSE, [obj EXCEPT !.z = @ - 1], <<>>)
            ELSE Effect(FALSE, obj, <<>>)
      [] name = "doubleZ" ->
            \* return {...record, z: record.z * 2} : a replacement, the argument untouched
            IF obj.typeName = "camera"
            THEN Effect(FALSE, obj, <<[obj EXCEPT !.z = @ * 2]>>)
            ELSE Effect(FALSE, obj, <<>>)
      [] name = "faulty" ->
            \* record.z++; throw new Error() : mutates, then throws
            IF obj.typeName = "camera"
            THEN Effect(TRUE, [obj EXCEPT !.z = @ + 1], <<>>)
            ELSE Effect(FALSE, obj, <<>>)
      [] name = "pruneStore" ->
            \* store scope: with page records in the store, delete them in place
            \* and return nothing; without, return a replacement in which
            \* camera:1 goes under the id camera:2
            IF \E i \in DOMAIN obj : obj[i].typeName = "page"
            THEN Effect(FALSE,
                        [id \in {i \in DOMAIN obj : obj[i].typeName # "page"} |-> obj[id]],
                        <<>>)
            ELSE Effect(FALSE, obj,
                        <<[id \in (IF "camera:1" \in DOMAIN obj
                                   THEN (DOMAIN obj \ {"camera:1"}) \cup {"camera:2"}
                                   ELSE DOMAIN obj) |->
                             IF id = "camera:2" /\ "camera:1" \in DOMAIN obj
                             THEN obj["camera:1"] ELSE obj[id]]>>)
      [] OTHER -> Effect(TRUE, obj, <<>>)

\* A step that declares no down transform.
NoDown == "none"

\* The kinds of step a sequence of the model is made of: scope, up, down.
StepKinds ==
    {[scope |-> "record", up |-> "addMeta", down |-> "deleteMeta"],
     [scope |-> "record", up |-> "incZ", down |-> "decZ"],
     [scope |-> "record", up |-> "doubleZ", down |-> NoDown],
     [scope |-> "record", up |-> "faulty", down |-> "faulty"],
     [scope |-> "store", up |-> "pruneStore", down |-> NoDown]}

\* A Migration: one step of a sequence.
Migration(sequenceId, version, kind) ==
    [id |-> MigrationIdOf(sequenceId, version),
     scope |-> kind.scope, up |-> kind.up, down |-> kind.down]

\* The step list of sequence sequenceId made of the given kinds, versions
\* FirstVersion, FirstVersion + 1, ...
SequenceOf(sequenceId, kinds) ==
    [i \in 1..Len(kinds) |-> Migration(sequenceId, FirstVersion + i - 1, kinds[i])]

\* Migrations: one registered sequence, under its registration key.
Migrations(sequenceId, postHoc, kinds) ==
    [sequenceId |-> sequenceId, postHoc |-> postHoc, sequence |-> SequenceOf(sequenceId, kinds)]

\* The lists of at most n step kinds.
KindLists(n) == UNION {[1..k -> StepKinds] : k \in 0..n}

\* options.migrations for the migrators: every registration of some of
\* RegisterableIds with steps of every kind, at most MaxSteps steps in all.
\* The migrators read the key order of this.migrations and the postHoc marks
\* through getMigrationsSince only: here the keys are in the order of
\* RegisterableIds and no sequence is postHoc; ResolverSchemas varies both.
Schemas ==
    UNION {
        {reg \in
            {[i \in 1..Len(order) |-> Migrations(order[i], FALSE, ks[i])] :
                ks \in [1..Len(order) -> KindLists(MaxSteps)]} :
            \A i, j \in 1..Len(reg) :
                i < j => Len(reg[i].sequence) + Len(reg[j].sequence) <= MaxSteps} :
        order \in {SelectSeq(RegisterableIds, LAMBDA x : x \in S) :
                      S \in SUBSET Range(RegisterableIds)}}

\* The kind of the camera sequence's step (AddMeta).
AddMetaKind == [scope |-> "record", up |-> "addMeta", down |-> "deleteMeta"]

\* options.migrations for the resolver, which reads of a step its id only:
\* every registration of some of RegisterableIds, in any key order, each
\* sequence postHoc or not and of at most MaxSteps steps.
ResolverSchemas ==
    UNION {
        {[i \in 1..Len(order) |->
             Migrations(order[i], ph[i], [j \in 1..n[i] |-> AddMetaKind])] :
            ph \in [1..Len(order) -> BOOLEAN],
            n \in [1..Len(order) -> 0..MaxSteps]} :
        order \in UNION {Orderings(S) : S \in SUBSET Range(RegisterableIds)}}

(***************************************************************************)
(* Serialized schemas.  A JavaScript object whose key order matters is a   *)
(* sequence of entries <<key, value>> with distinct keys.                  *)
(***************************************************************************)

\* Object.keys(object)
ObjectKeys(object) == [i \in 1..Len(object) |-> object[i][1]]

\* object[key]: <<value>>, or <<>> for undefined.
GetProperty(object, key) ==
    IF \E i \in 1..Len(object) : object[i][1] = key
    THEN <<object[CHOOSE i \in 1..Len(object) : object[i][1] = key][2]>>
    ELSE <<>>

\* object[key] = value: an existing key keeps its place, a new one goes last.
SetProperty(object, key, value) ==
    IF \E i \in 1..Len(object) : object[i][1] = key
    THEN [i \in 1..Len(object) |-> IF object[i][1] = key THEN <<key, value>> ELSE object[i]]
    ELSE Append(object, <<key, value>>)

\* SerializedSchemaV2
SerializedSchemaV2(sequences) == [schemaVersion |-> 2, sequences |-> sequences]

\* SerializedSchemaV1
SerializedSchemaV1(storeVersion, recordVersions) ==
    [schemaVersion |-> 1, storeVersion |-> storeVersion, recordVersions |-> recordVersions]

\* UpgradedSequenceId without the namespace: the type name itself is the key.
UpgradedSequenceIdBare(typeName, recordVersion) ==
    IF "subTypeKey" \in DOMAIN recordVersion
    THEN typeName \o "." \o recordVersion.subTypeKey
    ELSE typeName

\* Lines 55-59: the sequence id a record type of a legacy snapshot goes under.
UpgradedSequenceId(typeName, recordVersion) ==
    IF "subTypeKey" \in DOMAIN recordVersion
    THEN "com.tldraw/" \o typeName \o "." \o recordVersion.subTypeKey
    ELSE "com.tldraw/" \o typeName

\* The loop of upgradeSchema over Object.entries(schema.recordVersions).
RECURSIVE upgradeLoop(_, _)
upgradeLoop(entries, sequences) ==
    IF entries = <<>> THEN sequences
    ELSE LET typeName == Head(entries)[1]
             recordVersion == Head(entries)[2]
         IN  upgradeLoop(
                 Tail(entries),
                 SetProperty(sequences, UpgradedSequenceId(typeName, recordVersion), 0))

upgradeSchema(schema) ==
    IF schema.schemaVersion = 2 THEN schema
    ELSE SerializedSchemaV2(upgradeLoop(schema.recordVersions, <<>>))

(***************************************************************************)
(* StoreSchema.serialize and StoreSchema.serializeEarliestVersion          *)
(***************************************************************************)

\* Object.fromEntries(entries): the entries put into object one after the other.
RECURSIVE ObjectFromEntries(_, _)
ObjectFromEntries(entries, object) ==
    IF entries = <<>> THEN object
    ELSE ObjectFromEntries(Tail(entries),
                           SetProperty(object, Head(entries)[1], Head(entries)[2]))

\* SerializedVersion reading the first step of the sequence (`sequence.at(0)`).
SerializedVersionOfFirst(sequence) ==
    IF Len(sequence) # 0 THEN parseMigrationId(sequence[1].id).version ELSE -1

\* SerializedVersion with an empty sequence recorded at 0.
SerializedVersionZeroIfEmpty(sequence) ==
    IF Len(sequence) # 0 THEN parseMigrationId(sequence[Len(sequence)].id).version ELSE 0

\* Line 266: sequence.length ? parseMigrationId(sequence.at(-1)!.id).version : -1
SerializedVersion(sequence) ==
    IF Len(sequence) # 0 THEN parseMigrationId(sequence[Len(sequence)].id).version ELSE -1

serialize(registered) ==
    SerializedSchemaV2(
        ObjectFromEntries(
            [i \in 1..Len(registered) |->
                <<registered[i].sequenceId, SerializedVersion(registered[i].sequence)>>],
            <<>>))

\* EarliestVersion with every sequence recorded at 0.
EarliestVersionZero(sequenceId) == 0

\* Line 279: the version serializeEarliestVersion records for a sequence.
EarliestVersion(sequenceId) == -1

serializeEarliestVersion(registered) ==
    SerializedSchemaV2(
        ObjectFromEntries(
            [i \in 1..Len(registered) |->
                <<registered[i].sequenceId, EarliestVersion(registered[i].sequenceId)>>],
            <<>>))

(***************************************************************************)
(* Result, and sortMigrations                                              *)
(***************************************************************************)

ResultOk(value) == [ok |-> TRUE, value |-> value]

ResultErr(error) == [ok |-> FALSE, error |-> error]

\* The place of a sequence id in the lexicographic order of sequence ids.
SequenceIdRank(sequenceId) ==
    CHOOSE i \in 1..Len(AllSequenceIds) : AllSequenceIds[i] = sequenceId

\* The total order of migrations: sequence id, then version.
MigrationBefore(a, b) ==
    LET pa == parseMigrationId(a.id)
        pb == parseMigrationId(b.id)
    IN  \/ SequenceIdRank(pa.sequenceId) < SequenceIdRank(pb.sequenceId)
        \/ /\ pa.sequenceId = pb.sequenceId
           /\ pa.version < pb.version

\* list, sorted, with m put in its place (after the elements not after it).
RECURSIVE InsertSorted(_, _)
InsertSorted(m, list) ==
    IF list = <<>> THEN <<m>>
    ELSE IF MigrationBefore(m, Head(list)) THEN <<m>> \o list
    ELSE <<Head(list)>> \o InsertSorted(m, Tail(list))

RECURSIVE sortMigrations(_)
sortMigrations(list) ==
    IF list = <<>> THEN <<>>
    ELSE InsertSorted(list[Len(list)], sortMigrations(SubSeq(list, 1, Len(list) - 1)))

(***************************************************************************)
(* StoreSchema.getMigrationsSince                                          *)
(***************************************************************************)

\* The keys this.migrations, a plain object (`options.migrations ?? {}`),
\* inherits from Object.prototype; the model has one of them.
InheritedKeys == {"constructor"}

\* The value of an inherited key: a function of Object.prototype, which is
\* truthy and has neither a sequence nor a postHoc property.
InheritedValue(key) == [inherited |-> key]

\* this.migrations[sequenceId]: <<Migrations>> for a registered sequence,
\* <<value>> for an inherited key, or <<>> for undefined.
MigrationsOf(registered, sequenceId) ==
    IF \E i \in 1..Len(registered) : registered[i].sequenceId = sequenceId
    THEN <<registered[CHOOSE i \in 1..Len(registered) : registered[i].sequenceId = sequenceId]>>
    ELSE IF sequenceId \in InheritedKeys THEN <<InheritedValue(sequenceId)>>
    ELSE <<>>

\* An exception that leaves getMigrationsSince: neither Result.ok nor Result.err.
ResultThrown(error) == [ok |-> FALSE, thrown |-> error]

\* Spreading, or calling findIndex on, the undefined `.sequence` of a value
\* that is not a Migrations.
NotASequence == "TypeError: this.migrations[sequenceId].sequence is undefined"

\* The sequence ids the resolver goes through, in the iteration order of the Set.
SequenceIdsToInclude(registered, schema) ==
    SelectSeq(ObjectKeys(schema.sequences),
              LAMBDA sequenceId : MigrationsOf(registered, sequenceId) # <<>>)

\* sequence.findIndex((m) => m.id === theirVersionId), counted from 1; 0 for "not found".
FindIndex(sequence, theirVersionId) ==
    IF \E i \in 1..Len(sequence) : sequence[i].id = theirVersionId
    THEN CHOOSE i \in 1..Len(sequence) :
            /\ sequence[i].id = theirVersionId
            /\ \A j \in 1..(i - 1) : sequence[j].id # theirVersionId
    ELSE 0

\* SequenceSteps with an unknown version skipped instead of reported
\* (`if (idx === -1) continue`).
SequenceStepsLenient(mine, sequenceId, theirVersionNumber) ==
    IF "sequence" \notin DOMAIN mine THEN ResultThrown(NotASequence)
    ELSE IF \/ theirVersionNumber = <<-1>>
            \/ (theirVersionNumber = <<>> /\ mine.postHoc)
    THEN ResultOk(mine.sequence)
    ELSE LET theirVersionId ==
                 IF theirVersionNumber = <<>>
                 THEN sequenceId \o "/undefined"
                 ELSE MigrationIdOf(sequenceId, theirVersionNumber[1])
             idx == FindIndex(mine.sequence, theirVersionId)
         IN  IF idx = 0 THEN ResultOk(<<>>)
             ELSE ResultOk(SubSeq(mine.sequence, idx + 1, Len(mine.sequence)))

\* SequenceSteps with the step of the recorded version included (`slice(idx)`).
SequenceStepsInclusive(mine, sequenceId, theirVersionNumber) ==
    IF "sequence" \notin DOMAIN mine THEN ResultThrown(NotASequence)
    ELSE IF \/ theirVersionNumber = <<-1>>
            \/ (theirVersionNumber = <<>> /\ mine.postHoc)
    THEN ResultOk(mine.sequence)
    ELSE LET theirVersionId ==
                 IF theirVersionNumber = <<>>
                 THEN sequenceId \o "/undefined"
                 ELSE MigrationIdOf(sequenceId, theirVersionNumber[1])
             idx == FindIndex(mine.sequence, theirVersionId)
         IN  IF idx = 0 THEN ResultErr("Incompatible schema?")
             ELSE ResultOk(SubSeq(mine.sequence, idx, Len(mine.sequence)))

\* One turn of the for loop (lines 143-157): the steps sequence `mine`
\* contributes for the version the snapshot records, or the error; the turn
\* throws when `mine` is not a Migrations (lines 150 and 154).
SequenceSteps(mine, sequenceId, theirVersionNumber) ==
    IF "sequence" \notin DOMAIN mine THEN ResultThrown(NotASequence)
    ELSE IF \/ theirVersionNumber = <<-1>>
            \/ (theirVersionNumber = <<>> /\ mine.postHoc)
    THEN ResultOk(mine.sequence)
    ELSE LET theirVersionId ==
                 IF theirVersionNumber = <<>>
                 THEN sequenceId \o "/undefined"
                 ELSE MigrationIdOf(sequenceId, theirVersionNumber[1])
             idx == FindIndex(mine.sequence, theirVersionId)
         IN  IF idx = 0 THEN ResultErr("Incompatible schema?")
             ELSE ResultOk(SubSeq(mine.sequence, idx + 1, Len(mine.sequence)))

\* The for loop of getMigrationsSince: the steps pushed so far are in result.
RECURSIVE resolveLoop(_, _, _, _)
resolveLoop(registered, schema, sequenceIds, result) ==
    IF sequenceIds = <<>> THEN ResultOk(result)
    ELSE LET sequenceId == Head(sequenceIds)
             steps == SequenceSteps(MigrationsOf(registered, sequenceId)[1], sequenceId,
                                    GetProperty(schema.sequences, sequenceId))
         IN  IF ~steps.ok THEN steps
             ELSE resolveLoop(registered, schema, Tail(sequenceIds), result \o steps.value)

\* ResolvedResult without the sort (`return Result.ok(result)`).
ResolvedUnsorted(looped) == looped

\* The result of the loop, sorted when it is Ok.
ResolvedResult(looped) ==
    IF looped.ok THEN ResultOk(sortMigrations(looped.value)) ELSE looped

getMigrationsSince(registered, persistedSchema) ==
    LET schema == upgradeSchema(persistedSchema)
        sequenceIdsToInclude == SequenceIdsToInclude(registered, schema)
    IN  IF Len(sequenceIdsToInclude) = 0 THEN ResultOk(<<>>)
        ELSE ResolvedResult(resolveLoop(registered, schema, sequenceIdsToInclude, <<>>))

(***************************************************************************)
(* MigrationResult, and what a call of a migrator leaves behind            *)
(***************************************************************************)

MigrationError == "MigrationError"
TargetVersionTooNew == "TargetVersionTooNew"
TargetVersionTooOld == "TargetVersionTooOld"
IncompatibleSchema == "IncompatibleSchema"

Success(value) == [type |-> "success", value |-> value]

Failure(reason) == [type |-> "error", reason |-> reason]

\* What a method that returns a plain value returned.
ReturnOf(value) == [type |-> "returned", value |-> value]

\* The exception that left a method instead of a value.
Thrown(error) == [type |-> "thrown", error |-> error]

\* result: the MigrationResult returned; caller: the content, after the call,
\* of the object the caller passed in; applied: the transforms invoked, in order.
Outcome(result, caller, applied) == [result |-> result, caller |-> caller, applied |-> applied]

\* One invocation of a step's transform: on the record handed in ("record"),
\* on the record of a store under an id, or on the whole store ("store").
Invocation(migration, direction, target, threw) ==
    [id |-> migration.id, direction |-> direction, target |-> target, threw |-> threw]

\* NothingToApply with the empty list taken for a failed resolution
\* (`if (!migrations.ok || !migrations.value.length)`).
NothingToApplyAsFailure(value) == Outcome(Failure("MigrationError"), value, <<>>)

\* Lines 175-177 and 223-225: nothing to apply, the value handed in is returned.
NothingToApply(value) == Outcome(Success(value), value, <<>>)

(***************************************************************************)
(* StoreSchema.migratePersistedRecord                                      *)
(***************************************************************************)

\* RecordWorkingCopy without the clone: the loop works on the caller's object.
RecordWorkingAlias(record) == [content |-> record, isCaller |-> TRUE]

\* record = structuredClone(record) (line 199): the loop works on a copy.
RecordWorkingCopy(record) == [content |-> record, isCaller |-> FALSE]

\* The for loop of lines 201-207, inside the try.  st: the object `record`
\* refers to (content, isCaller), the caller's object (caller), the
\* transforms invoked (applied), and whether one threw.
RECURSIVE applyToRecord(_, _, _)
applyToRecord(migrationsToApply, direction, st) ==
    IF migrationsToApply = <<>> \/ st.threw THEN st
    ELSE LET migration == Head(migrationsToApply) IN
         IF migration.scope = "store" THEN [st EXCEPT !.threw = TRUE]
         ELSE LET e == Transform(migration[direction], st.content)
                  applied == Append(st.applied, Invocation(migration, direction, "record", e.threw))
                  caller == IF st.isCaller THEN e.obj ELSE st.caller
              IN  IF e.threw
                  THEN [st EXCEPT !.threw = TRUE, !.content = e.obj,
                                  !.caller = caller, !.applied = applied]
                  ELSE applyToRecord(
                           Tail(migrationsToApply), direction,
                           IF e.ret # <<>>
                           THEN [st EXCEPT !.content = e.ret[1], !.isCaller = FALSE,
                                           !.caller = caller, !.applied = applied]
                           ELSE [st EXCEPT !.content = e.obj,
                                           !.caller = caller, !.applied = applied])

\* The reason returned when the resolver fails (lines 172 and 220).
ResolverFailureReason == MigrationError

\* Lines 199-212: the copy, the loop, and the result.
RecordApplication(record, migrationsToApply, direction) ==
    LET working == RecordWorkingCopy(record)
        final == applyToRecord(migrationsToApply, direction,
                               [content |-> working.content, isCaller |-> working.isCaller,
                                caller |-> record, applied |-> <<>>, threw |-> FALSE])
    IN  IF final.threw
        THEN Outcome(Failure(MigrationError), final.caller, final.applied)
        ELSE Outcome(Success(final.content), final.caller, final.applied)

\* RecordRejection without the check of the steps' scope.
RecordRejectionNoScopeCheck(migrationsToApply, direction) ==
    IF /\ direction = "down"
       /\ ~(\A i \in 1..Len(migrationsToApply) : migrationsToApply[i].down # "none")
    THEN <<"TargetVersionTooOld">>
    ELSE <<>>

\* RecordRejection without the check that every step has a down.
RecordRejectionNoDownCheck(migrationsToApply, direction) ==
    IF \E i \in 1..Len(migrationsToApply) : migrationsToApply[i].scope = "store"
    THEN <<IF direction = "down" THEN "TargetVersionTooOld" ELSE "TargetVersionTooNew">>
    ELSE <<>>

\* Lines 179-197: the checks on the resolved steps; <<>> when they pass.
RecordRejection(migrationsToApply, direction) ==
    IF \E i \in 1..Len(migrationsToApply) : migrationsToApply[i].scope = "store"
    THEN <<IF direction = "down" THEN TargetVersionTooOld ELSE TargetVersionTooNew>>
    ELSE IF /\ direction = "down"
            /\ ~(\A i \in 1..Len(migrationsToApply) : migrationsToApply[i].down # NoDown)
    THEN <<TargetVersionTooOld>>
    ELSE <<>>

\* MigrationsInOrder without the reversal of line 196.
MigrationsInResolvedOrder(migrationsToApply, direction) == migrationsToApply

\* Lines 189-197: the order the steps are applied in.
MigrationsInOrder(migrationsToApply, direction) ==
    IF direction = "down" THEN Reverse(migrationsToApply) ELSE migrationsToApply

\* Line 169 is outside the try: what getMigrationsSince throws, the migrator throws.
migratePersistedRecord(registered, record, persistedSchema, direction) ==
    LET resolved == getMigrationsSince(registered, persistedSchema) IN
    IF "thrown" \in DOMAIN resolved THEN Outcome(Thrown(resolved.thrown), record, <<>>)
    ELSE IF ~resolved.ok THEN Outcome(Failure(ResolverFailureReason), record, <<>>)
    ELSE IF Len(resolved.value) = 0 THEN NothingToApply(record)
    ELSE LET rejection == RecordRejection(resolved.value, direction) IN
         IF rejection # <<>> THEN Outcome(Failure(rejection[1]), record, <<>>)
         ELSE RecordApplication(record, MigrationsInOrder(resolved.value, direction),
                                direction)

(***************************************************************************)
(* StoreSchema.migrateStoreSnapshot                                        *)
(***************************************************************************)

\* StoreWorkingCopy without the clone: the loop works on the caller's store
\* and on the caller's record objects.
StoreWorkingAlias(store) ==
    [store |-> store, storeIsCaller |-> TRUE, recIsCaller |-> DOMAIN store]

\* store = structuredClone(store) (line 227): a deep copy, so neither the
\* store object nor any record object of it is the caller's.
StoreWorkingCopy(store) == [store |-> store, storeIsCaller |-> FALSE, recIsCaller |-> {}]

\* The caller's store after an in-place mutation of the record object at id.
CallerAfterRecord(st, id, content) ==
    IF (st.storeIsCaller \/ id \in st.recIsCaller) /\ id \in DOMAIN st.caller
    THEN [st.caller EXCEPT ![id] = content]
    ELSE st.caller

\* Lines 232-237: for (const [id, record] of Object.entries(store)).
RECURSIVE applyToEntries(_, _, _)
applyToEntries(migration, ids, st) ==
    IF ids = <<>> \/ st.threw THEN st
    ELSE LET id == Head(ids)
             e == Transform(migration.up, st.store[id])
             applied == Append(st.applied, Invocation(migration, "up", id, e.threw))
             mutated == CallerAfterRecord(st, id, e.obj)
         IN  IF e.threw
             THEN [st EXCEPT !.threw = TRUE, !.store[id] = e.obj,
                             !.caller = mutated, !.applied = applied]
             ELSE applyToEntries(
                      migration, Tail(ids),
                      IF e.ret # <<>>
                      THEN \* store[id] = structuredClone(result)
                           [st EXCEPT !.store[id] = e.ret[1],
                                      !.recIsCaller = @ \ {id},
                                      !.caller = IF st.storeIsCaller
                                                 THEN [mutated EXCEPT ![id] = e.ret[1]]
                                                 ELSE mutated,
                                      !.applied = applied]
                      ELSE [st EXCEPT !.store[id] = e.obj,
                                      !.caller = mutated, !.applied = applied])

\* Line 238: Object.values(store).forEach((r) => migration.up!(r)).
RECURSIVE applyToValues(_, _, _)
applyToValues(migration, ids, st) ==
    IF ids = <<>> \/ st.threw THEN st
    ELSE LET id == Head(ids)
             e == Transform(migration.up, st.store[id])
             next == [st EXCEPT !.store[id] = e.obj,
                                !.caller = CallerAfterRecord(st, id, e.obj),
                                !.applied = Append(st.applied, Invocation(migration, "up", id, e.threw))]
         IN  IF e.threw THEN [next EXCEPT !.threw = TRUE]
             ELSE applyToValues(migration, Tail(ids), next)

\* Lines 231-238: a step of record scope.
ApplyRecordScope(migration, st) ==
    LET entered == applyToEntries(migration, StoreKeys(st.store), st)
    IN  applyToValues(migration, StoreKeys(entered.store), entered)

\* Lines 239-243: a step of store scope.
ApplyStoreScope(migration, st) ==
    LET e == Transform(migration.up, st.store)
        applied == Append(st.applied, Invocation(migration, "up", "store", e.threw))
        caller == IF st.storeIsCaller THEN e.obj ELSE st.caller
    IN  IF e.threw
        THEN [st EXCEPT !.threw = TRUE, !.store = e.obj, !.caller = caller, !.applied = applied]
        ELSE IF e.ret # <<>>
        THEN \* store = structuredClone(result)
             [st EXCEPT !.store = e.ret[1], !.storeIsCaller = FALSE, !.recIsCaller = {},
                        !.caller = caller, !.applied = applied]
        ELSE [st EXCEPT !.store = e.obj, !.recIsCaller = @ \cap DOMAIN e.obj,
                        !.caller = caller, !.applied = applied]

\* The for loop of lines 230-247, inside the try.
RECURSIVE applyToStore(_, _)
applyToStore(migrationsToApply, st) ==
    IF migrationsToApply = <<>> \/ st.threw THEN st
    ELSE LET migration == Head(migrationsToApply) IN
         applyToStore(Tail(migrationsToApply),
                      IF migration.scope = "record" THEN ApplyRecordScope(migration, st)
                      ELSE IF migration.scope = "store" THEN ApplyStoreScope(migration, st)
                      ELSE [st EXCEPT !.threw = TRUE])

\* Lines 227-252: the copy, the loop, and the result.
StoreApplication(store, migrationsToApply) ==
    LET working == StoreWorkingCopy(store)
        final == applyToStore(migrationsToApply,
                              [store |-> working.store,
                               storeIsCaller |-> working.storeIsCaller,
                               recIsCaller |-> working.recIsCaller,
                               caller |-> store, applied |-> <<>>, threw |-> FALSE])
    IN  IF final.threw
        THEN Outcome(Failure(MigrationError), final.caller, final.applied)
        ELSE Outcome(Success(final.store), final.caller, final.applied)

\* snapshot: a StoreSnapshot {store, schema}.  Line 217 is outside the try.
migrateStoreSnapshot(registered, snapshot) ==
    LET resolved == getMigrationsSince(registered, snapshot.schema) IN
    IF "thrown" \in DOMAIN resolved THEN Outcome(Thrown(resolved.thrown), snapshot.store, <<>>)
    ELSE IF ~resolved.ok THEN Outcome(Failure(ResolverFailureReason), snapshot.store, <<>>)
    ELSE IF Len(resolved.value) = 0 THEN NothingToApply(snapshot.store)
    ELSE StoreApplication(snapshot.store, resolved.value)

(***************************************************************************)
(* StoreSchema.validateRecord                                              *)
(***************************************************************************)

\* The type names a schema may have a RecordType for (createTLSchema).
TypeNames == {"camera", "page"}

\* No onValidationFailure in the options.
NoHook == "none"

\* The recovery hooks of the model: one that returns the failing record as it
\* is, one that returns it with a meta field, one that throws the error on.
Hooks == {"returnRecord", "addMeta", "rethrow"}

\* recordBefore: null, or <<record>> for a record.
Null == <<>>

\* new Error(`Missing definition for record type ${record.typeName}`)
MissingDefinition(typeName) == "Missing definition for record type " \o typeName

\* recordType.validate(record, recordBefore ?? undefined).  The validator of
\* camera (cameraValidator) asks for a meta object; the validator of another
\* type accepts the records of the model.  A valid record is returned as it is.
Validate(typeName, record, recordBefore) ==
    IF typeName = "camera" /\ "meta" \notin DOMAIN record
    THEN Thrown("ValidationError: At camera.meta: Expected json serializable value, got undefined")
    ELSE ReturnOf(record)

\* Lines 109-113, the body of the try.
TryValidate(registeredTypes, record, recordBefore) ==
    IF record.typeName \notin registeredTypes
    THEN Thrown(MissingDefinition(record.typeName))
    ELSE Validate(record.typeName, record, recordBefore)

\* What the hook is called with (lines 116-122).
FailureData(store, record, phase, recordBefore, error) ==
    [store |-> store, record |-> record, phase |-> phase,
     recordBefore |-> recordBefore, error |-> error]

\* this.options.onValidationFailure(data)
CallHook(hook, data) ==
    CASE hook = "returnRecord" -> ReturnOf(data.record)
      [] hook = "addMeta" -> ReturnOf(SetField(data.record, "meta", EmptyObject))
      [] OTHER -> Thrown(data.error)

\* Recover with a missing hook standing for "accept": the record is returned.
RecoverOrAccept(hook, data) ==
    IF hook # NoHook
    THEN Outcome(CallHook(hook, data), data.record, <<data>>)
    ELSE Outcome(ReturnOf(data.record), data.record, <<>>)

\* Lines 114-126, the catch: the hook's result if there is a hook, the error if not.
Recover(hook, data) ==
    IF hook # NoHook
    THEN Outcome(CallHook(hook, data), data.record, <<data>>)
    ELSE Outcome(Thrown(data.error), data.record, <<>>)

\* The Outcome of validateRecord: what it returned or threw, the record of the
\* caller, and the calls of the hook.
validateRecord(registeredTypes, hook, store, record, phase, recordBefore) ==
    LET attempt == TryValidate(registeredTypes, record, recordBefore) IN
    IF attempt.type = "returned" THEN Outcome(attempt, record, <<>>)
    ELSE Recover(hook, FailureData(store, record, phase, recordBefore, attempt.error))

(***************************************************************************)
(* The calls of the model                                                  *)
(***************************************************************************)

\* A sequence id no schema of the model registers.
UnknownId == "com.other"

\* The sequence ids a snapshot of the model may name.
SnapshotIds == Range(RegisterableIds) \cup {UnknownId}

\* The largest version a step of the model can have.
LastVersion == FirstVersion + MaxSteps - 1

\* The versions a snapshot may record for a sequence: -1 ("none ran"), 0 (the
\* version of no step: sequences start at FirstVersion), and those a step can
\* have, which a shorter sequence does not hold.
SnapshotVersions(sequenceId) ==
    IF sequenceId = UnknownId THEN {0} ELSE -1..LastVersion

\* The v2 snapshots: some of SnapshotIds, in any key order.
SnapshotsV2 ==
    UNION {
        {SerializedSchemaV2([i \in 1..Len(order) |-> <<order[i], versions[i]>>]) :
            versions \in {v \in [1..Len(order) -> -1..LastVersion] :
                            \A i \in 1..Len(order) : v[i] \in SnapshotVersions(order[i])}} :
        order \in UNION {Orderings(S) : S \in SUBSET SnapshotIds}}

\* The legacy snapshots: record types with a flat version, one with a sub-type axis.
SnapshotsV1 ==
    {SerializedSchemaV1(0, recordVersions) :
        recordVersions \in
            {<<<<"page", [version |-> 0]>>>>,
             <<<<"camera", [version |-> 0]>>>>,
             <<<<"camera", [version |-> 0]>>, <<"page", [version |-> 1]>>>>,
             <<<<"shape", [version |-> 0, subTypeVersions |-> <<>>, subTypeKey |-> "type"]>>>>}}

\* The v2 snapshots whose one sequence id is a key every object inherits.
SnapshotsInherited ==
    {SerializedSchemaV2(<<<<key, version>>>>) : key \in InheritedKeys, version \in {-1, 0}}

Snapshots == SnapshotsV2 \cup SnapshotsV1 \cup SnapshotsInherited

\* The snapshots handed to the migrators, which read a snapshot through
\* getMigrationsSince only: the v2 snapshots that name registerable ids, in
\* the order of RegisterableIds, one legacy snapshot, and one that names an
\* inherited key.
MigratorSnapshots ==
    {snapshot \in SnapshotsV2 :
        \E S \in SUBSET Range(RegisterableIds) :
            ObjectKeys(snapshot.sequences) = SelectSeq(RegisterableIds, LAMBDA x : x \in S)}
        \cup {SerializedSchemaV1(0, <<<<"page", [version |-> 0]>>>>)}
        \cup {SerializedSchemaV2(<<<<key, 0>>>>) : key \in InheritedKeys}

Directions == {"up", "down"}

\* No call has been made, or its result has been taken.
NoCall == [op |-> "none"]

NoOutcome == [result |-> <<>>, caller |-> <<>>, applied |-> <<>>]

Init ==
    /\ migrations \in Schemas
    /\ types = TypeNames
    /\ onValidationFailure = NoHook
    /\ pc = "idle"
    /\ call = NoCall
    /\ out = NoOutcome

\* schema.getMigrationsSince(persistedSchema)
GetMigrationsSince ==
    /\ pc = "idle"
    /\ \E persistedSchema \in Snapshots :
        /\ call' = [op |-> "getMigrationsSince", persistedSchema |-> persistedSchema]
        /\ out' = Outcome(getMigrationsSince(migrations, persistedSchema), persistedSchema, <<>>)
    /\ pc' = "returned"
    /\ UNCHANGED configuration

\* schema.migratePersistedRecord(record, persistedSchema, direction)
MigratePersistedRecord ==
    /\ pc = "idle"
    /\ \E record \in TestRecords, persistedSchema \in MigratorSnapshots,
          direction \in Directions :
        /\ call' = [op |-> "migratePersistedRecord", record |-> record,
                    persistedSchema |-> persistedSchema, direction |-> direction]
        /\ out' = migratePersistedRecord(migrations, record, persistedSchema, direction)
    /\ pc' = "returned"
    /\ UNCHANGED configuration

\* schema.migrateStoreSnapshot({store, schema: persistedSchema})
MigrateStoreSnapshot ==
    /\ pc = "idle"
    /\ \E store \in TestStores, persistedSchema \in MigratorSnapshots :
        /\ call' = [op |-> "migrateStoreSnapshot", store |-> store,
                    persistedSchema |-> persistedSchema]
        /\ out' = migrateStoreSnapshot(migrations,
                                       [store |-> store, schema |-> persistedSchema])
    /\ pc' = "returned"
    /\ UNCHANGED configuration

\* schema.serialize()
Serialize ==
    /\ pc = "idle"
    /\ call' = [op |-> "serialize"]
    /\ out' = Outcome(serialize(migrations), <<>>, <<>>)
    /\ pc' = "returned"
    /\ UNCHANGED configuration

\* schema.serializeEarliestVersion()
SerializeEarliestVersion ==
    /\ pc = "idle"
    /\ call' = [op |-> "serializeEarliestVersion"]
    /\ out' = Outcome(serializeEarliestVersion(migrations), <<>>, <<>>)
    /\ pc' = "returned"
    /\ UNCHANGED configuration

\* upgradeSchema(schema)
UpgradeSchema ==
    /\ pc = "idle"
    /\ \E schema \in Snapshots :
        /\ call' = [op |-> "upgradeSchema", schema |-> schema]
        /\ out' = Outcome(upgradeSchema(schema), schema, <<>>)
    /\ pc' = "returned"
    /\ UNCHANGED configuration

Phases == {"initialize", "createRecord", "updateRecord", "tests"}

\* schema.validateRecord(store, record, phase, recordBefore)
ValidateRecord ==
    /\ pc = "idle"
    /\ \E record \in TestRecords, phase \in Phases,
          recordBefore \in {Null} \cup {<<r>> : r \in TestRecords} :
        /\ recordBefore # Null => recordBefore[1].typeName = record.typeName
        /\ call' = [op |-> "validateRecord", store |-> "store", record |-> record,
                    phase |-> phase, recordBefore |-> recordBefore]
        /\ out' = validateRecord(types, onValidationFailure, "store", record, phase,
                                 recordBefore)
    /\ pc' = "returned"
    /\ UNCHANGED configuration

\* The caller takes the result; the schema is ready for the next call.
Return ==
    /\ pc = "returned"
    /\ pc' = "idle"
    /\ call' = NoCall
    /\ out' = NoOutcome
    /\ UNCHANGED configuration

Next ==
    \/ GetMigrationsSince
    \/ MigratePersistedRecord
    \/ MigrateStoreSnapshot
    \/ Return

Spec == Init /\ [][Next]_vars

\* The resolver and the serialized schemas on their own: a schema of
\* ResolverSchemas, calls of getMigrationsSince, serialize,
\* serializeEarliestVersion and upgradeSchema.
InitResolver ==
    /\ migrations \in ResolverSchemas
    /\ types = TypeNames
    /\ onValidationFailure = NoHook
    /\ pc = "idle"
    /\ call = NoCall
    /\ out = NoOutcome

NextResolver ==
    \/ GetMigrationsSince
    \/ Serialize
    \/ SerializeEarliestVersion
    \/ UpgradeSchema
    \/ Return

ResolverSpec == InitResolver /\ [][NextResolver]_vars

\* Validation on its own: a schema with some of the types and with or
\* without a recovery hook, calls of validateRecord.
InitValidation ==
    /\ migrations = <<>>
    /\ types \in SUBSET TypeNames
    /\ onValidationFailure \in {NoHook} \cup Hooks
    /\ pc = "idle"
    /\ call = NoCall
    /\ out = NoOutcome

NextValidation ==
    \/ ValidateRecord
    \/ Return

ValidationSpec == InitValidation /\ [][NextValidation]_vars

(***************************************************************************)
(* Properties                                                              *)
(***************************************************************************)

\* The call that has just returned is a call of one of the methods ops.
Returned(ops) == pc = "returned" /\ call.op \in ops

Migrators == {"migratePersistedRecord", "migrateStoreSnapshot"}

\* The value the caller handed to the migrator that has just returned.
Input == IF call.op = "migrateStoreSnapshot" THEN call.store ELSE call.record

\* The sequences the snapshot of the call shares with the schema: the entries
\* <<sequenceId, version>> of the (upgraded) snapshot whose id is registered.
SharedEntries(persistedSchema) ==
    SelectSeq(upgradeSchema(persistedSchema).sequences,
              LAMBDA entry : \E i \in 1..Len(migrations) : migrations[i].sequenceId = entry[1])

\* The registered step list of sequence sequenceId.
RegisteredSequence(sequenceId) ==
    (CHOOSE m \in Range(migrations) : m.sequenceId = sequenceId).sequence

\* A shared entry names a version, other than -1, that is the id of no local step.
NamesUnknownVersion(entry) ==
    /\ entry[2] # -1
    /\ \A m \in Range(RegisteredSequence(entry[1])) : m.id # MigrationIdOf(entry[1], entry[2])

\* The steps of a list that are steps of the registered sequence sequenceId,
\* in the order of the list.
StepsOfSequence(list, sequenceId) ==
    SelectSeq(list, LAMBDA m : m \in Range(RegisteredSequence(sequenceId)))

\* C1: getMigrationsSince returns an error, never an Ok list, whenever some
\* sequence shared by the snapshot and the schema is recorded at a version
\* other than -1 that is the id of no local step.
C1_UnknownVersionIsError ==
    Returned({"getMigrationsSince"}) =>
        ((\E entry \in Range(SharedEntries(call.persistedSchema)) : NamesUnknownVersion(entry))
            => ~out.result.ok)

\* C1 witness: one shared sequence names an unknown version while another,
\* compatible one has steps outstanding, and the call returned the error.
C1_Witness ==
    /\ Returned({"getMigrationsSince"})
    /\ ~out.result.ok
    /\ \E bad, good \in Range(SharedEntries(call.persistedSchema)) :
        /\ NamesUnknownVersion(bad)
        /\ good[2] = -1
        /\ RegisteredSequence(good[1]) # <<>>

\* C2 (as claimed): a migrator whose resolver returned its error returns the
\* reason IncompatibleSchema.
C2_ResolverFailureIsIncompatibleSchema ==
    (/\ Returned(Migrators)
     /\ getMigrationsSince(migrations, call.persistedSchema) = ResultErr("Incompatible schema?"))
        => out.result = Failure(IncompatibleSchema)

\* The steps of a sequence declared strictly after the step whose id is id.
StepsAfter(sequence, id) ==
    LET at == CHOOSE k \in 1..Len(sequence) : sequence[k].id = id
    IN  [i \in 1..(Len(sequence) - at) |-> sequence[at + i]]

\* C3: in an Ok result, every shared sequence contributes its whole step list
\* when recorded at -1 and otherwise exactly the steps declared strictly after
\* the step of the recorded version.
C3_SharedSequenceContribution ==
    (Returned({"getMigrationsSince"}) /\ out.result.ok) =>
        \A entry \in Range(SharedEntries(call.persistedSchema)) :
            StepsOfSequence(out.result.value, entry[1]) =
                IF entry[2] = -1 THEN RegisteredSequence(entry[1])
                ELSE StepsAfter(RegisteredSequence(entry[1]),
                                MigrationIdOf(entry[1], entry[2]))

\* C3 witness: a shared sequence of two steps recorded at its first version
\* contributed its second step only.
C3_Witness ==
    /\ Returned({"getMigrationsSince"})
    /\ out.result.ok
    /\ \E entry \in Range(SharedEntries(call.persistedSchema)) :
        /\ entry[2] = FirstVersion
        /\ Len(RegisteredSequence(entry[1])) = 2
        /\ StepsOfSequence(out.result.value, entry[1]) = <<RegisteredSequence(entry[1])[2]>>

\* C4 (as claimed): in an Ok result, a registered sequence the snapshot does
\* not name contributes its whole step list when postHoc and nothing otherwise.
C4_AbsentSequenceContribution ==
    (Returned({"getMigrationsSince"}) /\ out.result.ok) =>
        \A m \in Range(migrations) :
            (\A entry \in Range(upgradeSchema(call.persistedSchema).sequences) :
                    entry[1] # m.sequenceId)
                => StepsOfSequence(out.result.value, m.sequenceId) =
                       IF m.postHoc THEN m.sequence ELSE <<>>

\* The serialized schema with the entries of its sequences (v2) or of its
\* recordVersions (v1) in another key order.
Reorderings(persistedSchema) ==
    IF persistedSchema.schemaVersion = 2
    THEN {SerializedSchemaV2(q) : q \in Permutations_(persistedSchema.sequences)}
    ELSE {SerializedSchemaV1(persistedSchema.storeVersion, q) :
            q \in Permutations_(persistedSchema.recordVersions)}

\* C5: an Ok result is ordered by (sequence id, version), and the result is
\* the same for every registration order of the sequences and every key order
\* of the snapshot.
C5_SortedAndOrderIndependent ==
    Returned({"getMigrationsSince"}) =>
        /\ out.result.ok =>
            \A i, j \in 1..Len(out.result.value) :
                i < j => MigrationBefore(out.result.value[i], out.result.value[j])
        /\ \A registered \in Permutations_(migrations) :
            \A reordered \in Reorderings(call.persistedSchema) :
                getMigrationsSince(registered, reordered) = out.result

\* C5 witness: the snapshot names two shared sequences, the later one first,
\* and both contributed steps.
C5_Witness ==
    /\ Returned({"getMigrationsSince"})
    /\ out.result.ok
    /\ Len(out.result.value) = 2
    /\ Len(SharedEntries(call.persistedSchema)) = 2
    /\ SequenceIdRank(SharedEntries(call.persistedSchema)[1][1])
           > SequenceIdRank(SharedEntries(call.persistedSchema)[2][1])
    /\ \A entry \in Range(SharedEntries(call.persistedSchema)) :
           StepsOfSequence(out.result.value, entry[1]) # <<>>

\* The steps the resolver gives for the snapshot of the call; <<>> when it fails.
ResolvedSteps ==
    LET resolved == getMigrationsSince(migrations, call.persistedSchema)
    IN  IF resolved.ok THEN resolved.value ELSE <<>>

ResolverSucceeded == getMigrationsSince(migrations, call.persistedSchema).ok

\* C6: migratePersistedRecord with a store-scoped step among the resolved
\* steps returns TargetVersionTooNew (up) or TargetVersionTooOld (down) and
\* has invoked no transform.
C6_StoreScopeRejected ==
    (/\ Returned({"migratePersistedRecord"})
     /\ \E m \in Range(ResolvedSteps) : m.scope = "store")
        => /\ out.result = Failure(IF call.direction = "down" THEN TargetVersionTooOld
                                   ELSE TargetVersionTooNew)
           /\ out.applied = <<>>

\* C6 witness: a record-scoped step resolved ahead of a store-scoped one, and
\* the upward call was rejected.
C6_Witness ==
    /\ Returned({"migratePersistedRecord"})
    /\ call.direction = "up"
    /\ Len(ResolvedSteps) = 2
    /\ ResolvedSteps[1].scope = "record"
    /\ ResolvedSteps[2].scope = "store"
    /\ out.result = Failure(TargetVersionTooNew)

\* C7: migratePersistedRecord downwards with a resolved step that has no down
\* returns TargetVersionTooOld, has invoked no transform, and leaves the
\* caller's record as it was.
C7_MissingDownRejected ==
    (/\ Returned({"migratePersistedRecord"})
     /\ call.direction = "down"
     /\ \E m \in Range(ResolvedSteps) : m.down = NoDown)
        => /\ out.result = Failure(TargetVersionTooOld)
           /\ out.applied = <<>>
           /\ out.caller = call.record

\* C7 witness: of two record-scoped steps resolved, the first has no down but
\* the second, which a downgrade would run first, has one; the call was rejected.
C7_Witness ==
    /\ Returned({"migratePersistedRecord"})
    /\ call.direction = "down"
    /\ Len(ResolvedSteps) = 2
    /\ \A m \in Range(ResolvedSteps) : m.scope = "record"
    /\ ResolvedSteps[1].down = NoDown
    /\ ResolvedSteps[2].down # NoDown
    /\ out.result = Failure(TargetVersionTooOld)

\* C8: when a transform invoked by a migrator throws, the migrator returns
\* the error MigrationError (a result that carries no value) and the record
\* or store of the caller is as it was before the call.
C8_ThrowAbortsAndPreservesInput ==
    (/\ Returned(Migrators)
     /\ \E i \in 1..Len(out.applied) : out.applied[i].threw)
        => /\ out.result = Failure(MigrationError)
           /\ out.caller = Input

\* C8 witness: the second step threw after the first had changed the working copy.
C8_Witness ==
    /\ Returned(Migrators)
    /\ Len(out.applied) >= 2
    /\ ~out.applied[1].threw
    /\ out.applied[1].id # out.applied[Len(out.applied)].id
    /\ out.applied[Len(out.applied)].threw
    /\ \E m \in Range(ResolvedSteps) : m.id = out.applied[1].id /\ m.up = "incZ"
    /\ out.result = Failure(MigrationError)

\* What one application of a transform leaves: the replacement it returned,
\* or else the object as it mutated it.
AppliedOnce(name, obj) ==
    LET e == Transform(name, obj) IN IF e.ret # <<>> THEN e.ret[1] ELSE e.obj

\* The reference result of a store migration: each step, in order, applied
\* once to every record (record scope) or once to the store (store scope).
RECURSIVE ReferenceStore(_, _)
ReferenceStore(steps, store) ==
    IF steps = <<>> THEN store
    ELSE ReferenceStore(
             Tail(steps),
             IF Head(steps).scope = "record"
             THEN [id \in DOMAIN store |-> AppliedOnce(Head(steps).up, store[id])]
             ELSE AppliedOnce(Head(steps).up, store))

\* C9 (as claimed): a successful migrateStoreSnapshot returns the reference result.
C9_StoreEqualsReference ==
    (Returned({"migrateStoreSnapshot"}) /\ out.result.type = "success")
        => out.result.value = ReferenceStore(ResolvedSteps, call.store)

\* C10: when the resolver gives Ok with no step, a migrator returns success
\* with the value it was handed and has invoked no transform.
C10_IdentityLaw ==
    (/\ Returned(Migrators)
     /\ ResolverSucceeded
     /\ ResolvedSteps = <<>>)
        => /\ out.result = Success(Input)
           /\ out.applied = <<>>

\* C10 witness: a downward call on a schema whose shared sequence has steps,
\* all of them already recorded by the snapshot.
C10_Witness ==
    /\ Returned({"migratePersistedRecord"})
    /\ call.direction = "down"
    /\ ResolverSucceeded
    /\ ResolvedSteps = <<>>
    /\ \E entry \in Range(SharedEntries(call.persistedSchema)) :
           RegisteredSequence(entry[1]) # <<>>
    /\ out.result = Success(call.record)

\* The result of the call that has just returned, made once more with the
\* object of the caller as the first call left it.
SecondCall ==
    IF call.op = "migrateStoreSnapshot"
    THEN migrateStoreSnapshot(migrations,
                              [store |-> out.caller, schema |-> call.persistedSchema])
    ELSE migratePersistedRecord(migrations, out.caller, call.persistedSchema, call.direction)

\* C11: after every call of a migrator, successful or failed, the record or
\* store the caller passed in has the content it had before the call, and the
\* same call made again on it returns an equal result.
C11_InputPreserved ==
    Returned(Migrators) =>
        /\ out.caller = Input
        /\ SecondCall.result = out.result

\* C11 witness: a store migration that succeeded through a step mutating in
\* place and a step returning a replacement, with a result other than the input.
C11_Witness ==
    /\ Returned({"migrateStoreSnapshot"})
    /\ out.result.type = "success"
    /\ out.result.value # call.store
    /\ \E m \in Range(ResolvedSteps) : m.up = "incZ"
    /\ \E m \in Range(ResolvedSteps) : m.up = "doubleZ"
    /\ out.caller = call.store

\* C12: serialize returns a snapshot of schemaVersion 2 with exactly one entry
\* per registered sequence, under its registration key: -1 for a sequence
\* without steps, and otherwise the version the id of its last step ends with.
C12_SerializeLastVersions ==
    Returned({"serialize"}) =>
        /\ out.result.schemaVersion = 2
        /\ ObjectKeys(out.result.sequences) =
               [i \in 1..Len(migrations) |-> migrations[i].sequenceId]
        /\ \A i \in 1..Len(migrations) :
            LET sequence == migrations[i].sequence
                version == out.result.sequences[i][2]
            IN  IF sequence = <<>> THEN version = -1
                ELSE /\ version # -1
                     /\ \E sequenceId \in Range(AllSequenceIds) :
                            sequence[Len(sequence)].id = MigrationIdOf(sequenceId, version)

\* C12 witness: of two registered sequences one has no step and is recorded
\* at -1, the other has two and is recorded at the version of the second.
C12_Witness ==
    /\ Returned({"serialize"})
    /\ Len(migrations) = 2
    /\ \E i, j \in 1..2 :
        /\ migrations[i].sequence = <<>>
        /\ out.result.sequences[i][2] = -1
        /\ Len(migrations[j].sequence) = 2
        /\ out.result.sequences[j][2] = FirstVersion + 1

\* The sequences of an upgraded legacy snapshot when every record type goes
\* under prefix + its type name (+ "." + its sub-type key), at version 0.
UpgradedUnder(prefix, recordVersions) ==
    [i \in 1..Len(recordVersions) |->
        <<IF "subTypeKey" \in DOMAIN recordVersions[i][2]
          THEN prefix \o recordVersions[i][1] \o "." \o recordVersions[i][2].subTypeKey
          ELSE prefix \o recordVersions[i][1],
          0>>]

\* C13 (as claimed): a legacy snapshot upgrades to one entry per record type,
\* keyed by the type name (or the type name and sub-type key), with value 0;
\* recordVersions {camera: {version: 0}} gives sequences {camera: 0}.
C13_UpgradeKeyedByTypeName ==
    (Returned({"upgradeSchema"}) /\ call.schema.schemaVersion = 1) =>
        out.result = SerializedSchemaV2(UpgradedUnder("", call.schema.recordVersions))

\* C13 (amended): a legacy snapshot upgrades to one entry per record type,
\* keyed by "com.tldraw/" followed by the type name (or by the type name, a
\* dot and the sub-type key), with value 0 whatever version it recorded;
\* recordVersions {camera: {version: 0}} gives sequences {"com.tldraw/camera": 0}.
C13_UpgradeKeyedByNamespacedType ==
    (Returned({"upgradeSchema"}) /\ call.schema.schemaVersion = 1) =>
        out.result = SerializedSchemaV2(UpgradedUnder("com.tldraw/", call.schema.recordVersions))

\* C13 witness: the legacy snapshot of the scenario, upgraded.
C13_Witness ==
    /\ Returned({"upgradeSchema"})
    /\ call.schema = SerializedSchemaV1(0, <<<<"camera", [version |-> 0]>>>>)
    /\ out.result = SerializedSchemaV2(<<<<"com.tldraw/camera", 0>>>>)

\* The error validation of the record of the call fails with: <<error>>, or
\* <<>> when the type is registered and its validator accepts the record.
ValidationFailure ==
    IF call.record.typeName \notin types
    THEN <<MissingDefinition(call.record.typeName)>>
    ELSE LET validated == Validate(call.record.typeName, call.record, call.recordBefore)
         IN  IF validated.type = "thrown" THEN <<validated.error>> ELSE <<>>

\* C14: when validation fails (the validator throws, or the type is not
\* registered) and a hook is configured, the hook is called exactly once, with
\* the record, the phase, recordBefore and the error, and what it returns is
\* returned as it is, valid or not; when no hook is configured the error
\* propagates and nothing is called; when validation succeeds the hook is not
\* called and the validated record is returned.
C14_ValidationRecovery ==
    Returned({"validateRecord"}) =>
        IF ValidationFailure = <<>>
        THEN /\ out.applied = <<>>
             /\ out.result = ReturnOf(call.record)
        ELSE IF onValidationFailure = NoHook
        THEN /\ out.applied = <<>>
             /\ out.result = Thrown(ValidationFailure[1])
        ELSE /\ Len(out.applied) = 1
             /\ out.applied[1].record = call.record
             /\ out.applied[1].phase = call.phase
             /\ out.applied[1].recordBefore = call.recordBefore
             /\ out.applied[1].error = ValidationFailure[1]
             /\ out.result = CallHook(onValidationFailure, out.applied[1])

\* C14 witness: the validator of camera threw, the hook was called once and
\* the record it returned, which the validator would reject again, came back.
C14_Witness ==
    /\ Returned({"validateRecord"})
    /\ call.record.typeName \in types
    /\ ValidationFailure # <<>>
    /\ onValidationFailure = "returnRecord"
    /\ Len(out.applied) = 1
    /\ out.result = ReturnOf(call.record)
    /\ Validate(call.record.typeName, out.result.value, call.recordBefore).type = "thrown"

\* The step AddMeta of the camera sequence (cameraMigrations).
CameraAddMeta == Migration("com.tldraw.camera", FirstVersion, AddMetaKind)

Opposite(direction) == IF direction = "up" THEN "down" ELSE "up"

\* C15 (as claimed): with the camera sequence's AddMeta step resolved, a
\* camera record at the version the direction starts from (without meta for
\* up, with meta for down), migrated in that direction and then in the
\* opposite one under the same snapshot, comes back equal to what it was.
C15_RoundTrip ==
    (/\ Returned({"migratePersistedRecord"})
     /\ ResolvedSteps = <<CameraAddMeta>>
     /\ call.record.typeName = "camera"
     /\ ("meta" \in DOMAIN call.record) <=> (call.direction = "down")
     /\ out.result.type = "success")
        => migratePersistedRecord(migrations, out.result.value, call.persistedSchema,
                                  Opposite(call.direction)).result
               = Success(call.record)

\* C16 (as claimed): every call of getMigrationsSince, migratePersistedRecord
\* and migrateStoreSnapshot ends by returning a tagged result, Ok or Err for
\* the resolver and success or error for the migrators; no exception escapes.
C16_NoExceptionEscapes ==
    /\ Returned({"getMigrationsSince"}) => "thrown" \notin DOMAIN out.result
    /\ Returned(Migrators) => out.result.type \in {"success", "error"}

\* C17: in a downward migratePersistedRecord whose resolved steps all have a
\* down, the transforms invoked are the downs of the resolved steps in the
\* reverse of the resolved order, each at most once and with none skipped:
\* all of them when the call succeeds, and up to the one that threw when not.
C17_DownInReverseOrder ==
    (/\ Returned({"migratePersistedRecord"})
     /\ call.direction = "down"
     /\ ResolvedSteps # <<>>
     /\ \A m \in Range(ResolvedSteps) : m.scope = "record" /\ m.down # NoDown)
        => /\ Len(out.applied) <= Len(ResolvedSteps)
           /\ \A i \in 1..Len(out.applied) :
                /\ out.applied[i].id = ResolvedSteps[Len(ResolvedSteps) + 1 - i].id
                /\ out.applied[i].direction = "down"
                /\ out.applied[i].threw => i = Len(out.applied)
           /\ out.result.type = "success" => Len(out.applied) = Len(ResolvedSteps)
           /\ out.result.type # "success" =>
                (out.applied # <<>> /\ out.applied[Len(out.applied)].threw)

\* C17 witness: two steps with different downs were resolved; the down of the
\* second ran first, the down of the first ran last, and the call succeeded.
C17_Witness ==
    /\ Returned({"migratePersistedRecord"})
    /\ call.direction = "down"
    /\ call.record.typeName = "camera"
    /\ Len(ResolvedSteps) = 2
    /\ ResolvedSteps[1].down # ResolvedSteps[2].down
    /\ Len(out.applied) = 2
    /\ out.applied[1].id = ResolvedSteps[2].id
    /\ out.applied[2].id = ResolvedSteps[1].id
    /\ out.result.type = "success"

\* The registered step whose id is id.
StepById(id) ==
    CHOOSE m \in UNION {Range(migrations[i].sequence) : i \in 1..Len(migrations)} : m.id = id

\* The value after the invocations of a trace when each is honoured: the
\* object it was invoked on is replaced by what it returned, or else stays as
\* it mutated it.  value is a record (target "record") or a store.
RECURSIVE Honoured(_, _)
Honoured(trace, value) ==
    IF trace = <<>> THEN value
    ELSE LET invocation == Head(trace)
             name == StepById(invocation.id)[invocation.direction]
         IN  Honoured(Tail(trace),
                      IF invocation.target \in {"record", "store"}
                      THEN AppliedOnce(name, value)
                      ELSE [value EXCEPT ![invocation.target] =
                                AppliedOnce(name, value[invocation.target])])

\* C18 (as claimed): the result of a successful migration is what the
\* invocations made leave when every one is honoured: a transform that
\* returned nothing by its in-place mutation, a transform that returned a
\* value by that value replacing the record (or the store).
C18_TransformContract ==
    (Returned(Migrators) /\ out.result.type = "success")
        => out.result.value = Honoured(out.applied, Input)

\* C19: getMigrationsSince called with what serialize returns is Ok with an
\* empty list.
C19_CurrentWithOwnSerialization ==
    (/\ Returned({"getMigrationsSince"})
     /\ call.persistedSchema = serialize(migrations))
        => out.result = ResultOk(<<>>)

\* C19 witness: the schema registers a sequence without steps and a sequence
\* with steps, and getMigrationsSince was called with its serialization.
C19_Witness ==
    /\ Returned({"getMigrationsSince"})
    /\ call.persistedSchema = serialize(migrations)
    /\ \E m \in Range(migrations) : m.sequence = <<>>
    /\ \E m \in Range(migrations) : m.sequence # <<>>
    /\ out.result = ResultOk(<<>>)

\* C20: getMigrationsSince called with what serializeEarliestVersion returns
\* is Ok with every step of every registered sequence, each exactly once, and
\* nothing else; upgradeSchema returns a snapshot of schemaVersion 2, and the
\* snapshot it was given when that one is of schemaVersion 2.
C20_EarliestVersionAndUpgrade ==
    /\ (/\ Returned({"getMigrationsSince"})
        /\ call.persistedSchema = serializeEarliestVersion(migrations))
            => /\ out.result.ok
               /\ \A m \in Range(migrations) : \A k \in 1..Len(m.sequence) :
                      Cardinality({i \in 1..Len(out.result.value) :
                                      out.result.value[i] = m.sequence[k]}) = 1
               /\ \A i \in 1..Len(out.result.value) :
                      \E m \in Range(migrations) : out.result.value[i] \in Range(m.sequence)
    /\ Returned({"upgradeSchema"})
            => /\ out.result.schemaVersion = 2
               /\ call.schema.schemaVersion = 2 => out.result = call.schema

\* C20 witness: two registered sequences with steps, and getMigrationsSince
\* called with the earliest serialization returned the steps of both.
C20_Witness ==
    /\ Returned({"getMigrationsSince"})
    /\ call.persistedSchema = serializeEarliestVersion(migrations)
    /\ Len(migrations) = 2
    /\ \A m \in Range(migrations) : m.sequence # <<>>
    /\ out.result.ok
    /\ Len(out.result.value) = Len(migrations[1].sequence) + Len(migrations[2].sequence)

====
